---------------------------- MODULE Spec2Model ----------------------------
(***************************************************************************)
(* Model of the backend-lycosidae gateway: the route handlers of the       *)
(* attendance, exercises and scoreboard routers and the downstream client  *)
(* wrapper InterpreterClient._request.                                     *)
(*                                                                         *)
(* One request is followed from its arrival to its response.  A handler    *)
(* is cut at its awaits: every action runs the code between two awaits,    *)
(* and the answer of the downstream service to the awaited call is an      *)
(* input of the action that resumes the handler.                           *)
(*                                                                         *)
(* Taken from outside the five source files: get_current_user hands the    *)
(* handler an authenticated user (id, role); the calls of the logger have  *)
(* no effect; a value a handler returns is sent with the status_code of    *)
(* its route; orchester.start_container answers, returns nothing or        *)
(* raises.                                                                 *)
(***************************************************************************)
EXTENDS Integers, Sequences, FiniteSets, TLC

\* ------------------------------------------------------------------ bounds
\* Instants are 0..MaxTime (the clock and the dates of a competition).
MaxTime == 2
\* Longest list a downstream list endpoint answers with.
MaxListLen == 2

\* ------------------------------------------------------------- input values
UserIds == {"u1", "u2"}
Roles == {"admin", "student"}
Users == [id : UserIds, role : Roles]
CompIds == {"c1", "c2"}
ExIds == {"e1", "e2"}
TagIds == {"t1"}
Times == 0 .. MaxTime

SeqsUpTo(S, n) == UNION {[1 .. k -> S] : k \in 0 .. n}

\* A competition date as the interpreter sends it: an ISO string ending in Z, a
\* naive ISO string, an ISO string with a UTC offset (hours), or text that
\* datetime.fromisoformat rejects.  t is the wall-clock instant written in it.
DateStrings ==
    {[fmt |-> "bad", t |-> 0, off |-> 0]}
    \cup [fmt : {"Z", "naive"}, t : Times, off : {0}]
    \cup [fmt : {"offset"}, t : Times, off : {-1, 1}]

EmptyDict == [empty |-> TRUE]
Competitions == [start_date : DateStrings, end_date : DateStrings]
ExerciseLists == SeqsUpTo([id : ExIds], MaxListLen)
Histories == SeqsUpTo([competitions_id : CompIds], MaxListLen)
ParticipantLists == SeqsUpTo([id : UserIds], MaxListLen)
Exercises == [docker_image : {"", "img"}, name : {"ex"}, has_name : BOOLEAN]
Containers == [is_active : BOOLEAN, connection : {"host"}, port : {8080}]
OrchesterReplies == [container_id : {"k1"}, host_port : {31000}, service_url : {"url"}]
Opaque == [data |-> "json"]

\* ------------------------------------------------- the downstream responses
\* status -1 stands for httpx.RequestError (no response at all).
TransportFailure == [status |-> -1, body |-> [kind |-> "notjson"]]
DownStatuses == {200, 204, 302, 400, 404, 409, 500, 503}
\* A body that carries no data of the endpoint: a JSON object with a "detail"
\* key, a JSON object without one, a JSON value that is no object, not JSON.
PlainBodies == {[kind |-> "detail"], [kind |-> "nodetail"], [kind |-> "array"], [kind |-> "notjson"]}
PlainResponses ==
    [status : DownStatuses \ {200}, body : PlainBodies]
    \cup {[status |-> 200, body |-> [kind |-> "notjson"]]}
    \cup {TransportFailure}
DataResponses(D) == [status : {200}, body : [kind : {"data"}, val : D]]

DefaultDetail == "Erro na requisicao ao Interpreter"
DownstreamDetail == "downstream detail"

\* --------------------------------------------------- InterpreterClient._request
\* response.json()
Json(body) ==
    IF body.kind = "notjson" THEN [ok |-> FALSE]
    ELSE [ok |-> TRUE, isObject |-> body.kind \in {"detail", "nodetail", "data"}]

Returned(v) == [kind |-> "return", status |-> 0, val |-> v]
ReturnedNone == [kind |-> "none", status |-> 0]
RaisedHTTP(s, d) == [kind |-> "http_exc", status |-> s, detail |-> d]
RaisedOther(e) == [kind |-> "exc", status |-> 0, exc |-> e]

\* The result of one call of _request, given what the HTTP request met.
_request(resp) ==
    IF resp.status = -1 THEN RaisedHTTP(503, "Falha de conexao")
    ELSE IF resp.status = 404 THEN ReturnedNone
    ELSE IF resp.status = 204 THEN ReturnedNone
    ELSE IF 400 <= resp.status /\ resp.status < 500 THEN
        IF ~Json(resp.body).ok THEN RaisedOther("JSONDecodeError")
        ELSE IF ~Json(resp.body).isObject THEN RaisedOther("AttributeError")
        ELSE RaisedHTTP(resp.status,
                        IF resp.body.kind = "detail" THEN DownstreamDetail
                        ELSE DefaultDetail)
    ELSE IF resp.status >= 500 THEN RaisedHTTP(502, "Erro interno no Interpreter.")
    ELSE IF ~Json(resp.body).ok THEN RaisedOther("JSONDecodeError")
    ELSE Returned(resp.body)


\* InterpreterClient._dump: model_dump(mode='json', exclude_unset=True) keeps
\* the fields the caller set.  A pydantic model is its values and the names set.
_dump(data) == [k \in data.set |-> data.val[k]]

\* ------------------------------------------------------------ the request
\* req: the request followed by Spec.  For the requests in flight together:
\* inflight[i] is request i, attendance the records the interpreter stores (in
\* the order written), seen[i] the number of records stored when request i
\* looked the history up, wrote[i] the place of the record request i wrote (0
\* for none).
VARIABLES req, inflight, attendance, seen, wrote

vars == <<req, inflight, attendance, seen, wrote>>

\* One request at a time: the requests in flight together stay as they are.
Quiet == UNCHANGED <<inflight, attendance, seen, wrote>>

NoneStr == "<None>"
NoResponse == [status |-> 0, kind |-> "pending"]
Idle ==
    [h |-> "-", user |-> [id |-> "-", role |-> "-"], p |-> <<>>, pc |-> "idle",
     loc |-> <<>>, calls |-> <<>>, outs |-> <<>>, http |-> <<>>,
     resp |-> NoResponse]

NewRequest(h, u, p) ==
    [h |-> h, user |-> u, p |-> p, pc |-> "entry",
     loc |-> <<>>, calls |-> <<>>, outs |-> <<>>, http |-> <<>>,
     resp |-> NoResponse]

\* The status_code of the route decorator (200 when none is given).
StatusCode(h) ==
    CASE h \in {"create_exercise", "record_attendance"} -> 201
      [] h = "delete_exercise" -> 204
      [] OTHER -> 200

\* raise HTTPException(status_code=s): the framework answers with s.
HTTPError(r, s) ==
    [r EXCEPT !.pc = "done", !.resp = [status |-> s, kind |-> "error"]]

\* Any other exception leaving a handler: the framework answers 500.
Unhandled(r) == HTTPError(r, 500)

\* return v
Reply(r, v) ==
    [r EXCEPT !.pc = "done",
              !.resp = [status |-> StatusCode(r.h), kind |-> "data", body |-> v]]

\* await <svc>.<op>(args): the call is made and the handler waits at pc.
Await(r, svc, op, args, pc) ==
    [r EXCEPT !.calls = Append(@, [svc |-> svc, op |-> op, args |-> args]),
              !.pc = pc]

\* What a client call gave the handler.
Raised(out) == out.kind \in {"http_exc", "exc"}
\* "none", "data" (a value of the endpoint's shape), "dict" or "array" (JSON of
\* another shape).
Shape(out) ==
    IF out.kind = "none" THEN "none"
    ELSE IF out.val.kind = "data" THEN "data"
    ELSE IF out.val.kind = "array" THEN "array"
    ELSE "dict"

\* An exception of a client call that the handler does not catch.
Propagate(r, out) ==
    IF out.kind = "http_exc" THEN HTTPError(r, out.status) ELSE Unhandled(r)

\* return await <client call>
ReturnAwait(r, out) ==
    IF Raised(out) THEN Propagate(r, out)
    ELSE IF out.kind = "none" THEN Reply(r, NoneStr)
    ELSE Reply(r, out.val)

\* any(x[key] == v for x in lst)
RECURSIVE AnyEq(_, _, _)
AnyEq(lst, key, v) ==
    IF lst = <<>> THEN FALSE
    ELSE IF Head(lst)[key] = v THEN TRUE
    ELSE AnyEq(Tail(lst), key, v)

\* The awaited call came back with out, after the HTTP exchanges sent (both
\* kept at the index of the call they answer).
Got(r, out, sent) == [r EXCEPT !.outs = Append(@, out), !.http = Append(@, sent)]

\* An interpreter call: _request sends one HTTP request, which meets resp.
Answered(r, resp) == Got(r, _request(resp), <<resp>>)

At(h, pc) == req.h = h /\ req.pc = pc

\* ------------------------------------------------------- request payloads
\* SolveSubmitDTO
SolvePayloads ==
    [set : {{"competitions_id", "exercises_id", "content"}},
     val : [competitions_id : CompIds, exercises_id : ExIds, content : {"flag"}]]
\* AttendanceCreateDTO: users_id is optional (default None); the caller may
\* leave it out, or send null, "" or an id.
AttendancePayloads ==
    [set : {{"competitions_id"}},
     val : [competitions_id : CompIds, users_id : {NoneStr}]]
    \cup [set : {{"competitions_id", "users_id"}},
          val : [competitions_id : CompIds, users_id : UserIds \cup {NoneStr, ""}]]
\* ExerciseCreateDTO, ExerciseUpdateDTO
ExercisePayloads == [set : {{"name"}}, val : [name : {"ex"}]]
\* ContainerRequestDTO
DeployPayloads == [set : {{"time_alive"}}, val : [time_alive : {60}]]

Handlers ==
    {"list_all_exercises", "get_connection_info", "get_my_solves", "submit_flag",
     "create_exercise", "get_exercise_admin", "link_to_competition", "link_to_tag",
     "update_exercise", "delete_exercise", "get_exercise_competitions",
     "unlink_from_competition", "unlink_from_tag", "deploy_exercise_infrastructure",
     "get_all_attendances", "get_user_attendance", "get_competition_attendance",
     "record_attendance", "get_global_scoreboard", "get_competition_scoreboard"}

\* The path, query and body parameters of each route.
ParamsOf(h) ==
    CASE h \in {"list_all_exercises", "get_my_solves", "get_all_attendances",
                "get_global_scoreboard"} -> {<<>>}
      [] h \in {"get_connection_info", "link_to_competition",
                "unlink_from_competition"} -> [ex_id : ExIds, comp_id : CompIds]
      [] h = "submit_flag" -> [payload : SolvePayloads]
      [] h = "create_exercise" -> [payload : ExercisePayloads]
      [] h \in {"get_exercise_admin", "delete_exercise",
                "get_exercise_competitions"} -> [ex_id : ExIds]
      [] h \in {"link_to_tag", "unlink_from_tag"} -> [ex_id : ExIds, tag_id : TagIds]
      [] h = "update_exercise" -> [ex_id : ExIds, payload : ExercisePayloads]
      [] h = "deploy_exercise_infrastructure" -> [ex_id : ExIds, payload : DeployPayloads]
      [] h = "get_user_attendance" -> [user_id : UserIds]
      [] h = "get_competition_attendance" -> [competition_id : CompIds]
      [] h = "record_attendance" -> [payload : AttendancePayloads]
      [] h = "get_competition_scoreboard" -> [comp_id : CompIds]

\* What the interpreter may answer to each call.
RepliesTo(op) ==
    PlainResponses \cup
    DataResponses(CASE op = "get_competition" -> Competitions \cup {EmptyDict}
                    [] op = "get_competition_exercises" -> ExerciseLists
                    [] op = "get_user_attendance" -> Histories
                    [] op = "get_competition_participants" -> ParticipantLists
                    [] op = "get_exercise" -> Exercises
                    [] op = "get_container_by_exercise" -> Containers
                    [] OTHER -> {Opaque})

\* Requests handled at the same time (the awaits of one interleave with the
\* awaits of the others).
MaxConc == 2
Slots == 1 .. MaxConc

Init ==
    /\ req = Idle
    /\ inflight = [i \in Slots |-> Idle]
    /\ attendance = <<>>
    /\ seen = [i \in Slots |-> 0]
    /\ wrote = [i \in Slots |-> 0]

\* A request arrives, already authenticated (user is the AuthToken that
\* get_current_user gives the handler).
Receive ==
    /\ req.pc = "idle"
    /\ \E h \in Handlers, u \in Users :
          \E p \in ParamsOf(h) : req' = NewRequest(h, u, p)

\* The response is sent.
Respond ==
    /\ req.pc = "done"
    /\ req' = Idle

\* `return await interpreter.<op>(...)`: the last statement of a handler.
return_await ==
    /\ req.pc = "return_await"
    /\ \E resp \in RepliesTo(req.calls[Len(req.calls)].op) :
          req' = ReturnAwait(Answered(req, resp), _request(resp))


\* ------------------------------------------------------ routers/exercises.py
\* The role check left out.
NotAdmin_skipped(u) == FALSE

\* user.role != "admin"
NotAdmin(u) == u.role # "admin"

\* if user.role != "admin": raise 403, else `return await interpreter.<op>(args)`
AdminForward(r, op, args) ==
    IF NotAdmin(r.user) THEN HTTPError(r, 403)
    ELSE Await(r, "interpreter", op, args, "return_await")

list_all_exercises ==
    /\ At("list_all_exercises", "entry")
    /\ req' = Await(req, "interpreter", "list_all_exercises", <<>>, "return_await")

get_connection_info ==
    /\ At("get_connection_info", "entry")
    /\ req' = Await(req, "interpreter", "get_container_by_exercise",
                    <<req.p.ex_id>>, "after_get_container")

\* `not container or not container.get("is_active")`
ConnectionInfo(r, out) ==
    IF Raised(out) THEN Propagate(r, out)
    ELSE IF Shape(out) = "none" THEN HTTPError(r, 404)
    ELSE IF Shape(out) = "array" THEN Unhandled(r)
    ELSE IF Shape(out) = "dict" THEN HTTPError(r, 404)
    ELSE IF ~out.val.val.is_active THEN HTTPError(r, 404)
    ELSE Reply(r, [connection |-> out.val.val.connection, port |-> out.val.val.port])

get_connection_info_after_get_container ==
    /\ At("get_connection_info", "after_get_container")
    /\ \E resp \in RepliesTo("get_container_by_exercise") :
          req' = ConnectionInfo(Answered(req, resp), _request(resp))

get_my_solves ==
    /\ At("get_my_solves", "entry")
    /\ req' = Await(req, "interpreter", "get_user_solves", <<req.user.id>>, "return_await")

\* ensure_utc that stamps UTC on an aware datetime instead of converting it.
ensure_utc_replace(dt_val) ==
    IF dt_val.fmt = "bad" THEN [ok |-> FALSE, t |-> 0]
    ELSE [ok |-> TRUE, t |-> dt_val.t]

\* ensure_utc: the instant in UTC, or an exception for text that is no date.
ensure_utc(dt_val) ==
    IF dt_val.fmt = "bad" THEN [ok |-> FALSE, t |-> 0]
    ELSE IF dt_val.fmt = "naive" THEN [ok |-> TRUE, t |-> dt_val.t]
    ELSE [ok |-> TRUE, t |-> dt_val.t - dt_val.off]

\* now < start_date
NotStarted(now, start_date) == now < start_date
\* now > end_date
Ended(now, end_date) == now > end_date

submit_flag ==
    /\ At("submit_flag", "entry")
    /\ req' = Await(req, "interpreter", "get_competition",
                    <<req.p.payload.val.competitions_id>>, "after_get_competition")

\* Lines 55-82: the competition and its time window; now is datetime.now(utc).
CheckCompetition(r, out, now) ==
    IF Raised(out) THEN Propagate(r, out)
    ELSE IF Shape(out) = "none" THEN HTTPError(r, 404)
    ELSE IF Shape(out) = "data" /\ out.val.val = EmptyDict THEN HTTPError(r, 404)
    ELSE IF Shape(out) # "data" THEN HTTPError(r, 500)
    ELSE LET start_date == ensure_utc(out.val.val.start_date)
             end_date == ensure_utc(out.val.val.end_date)
             rr == [r EXCEPT !.loc = [now |-> now, start_date |-> start_date,
                                      end_date |-> end_date]]
         IN  IF ~start_date.ok \/ ~end_date.ok THEN HTTPError(rr, 500)
             ELSE IF NotStarted(now, start_date.t) THEN HTTPError(rr, 400)
             ELSE IF Ended(now, end_date.t) THEN HTTPError(rr, 400)
             ELSE Await(rr, "interpreter", "get_competition_exercises",
                        <<r.p.payload.val.competitions_id>>,
                        "after_get_competition_exercises")

submit_flag_after_get_competition ==
    /\ At("submit_flag", "after_get_competition")
    /\ \E resp \in RepliesTo("get_competition"), now \in Times :
          req' = CheckCompetition(Answered(req, resp), _request(resp), now)

\* Lines 83-88: the exercise belongs to the competition, then the submission.
CheckMembership(r, out) ==
    IF Raised(out) THEN Propagate(r, out)
    ELSE IF Shape(out) # "data" THEN Unhandled(r)
    ELSE IF ~AnyEq(out.val.val, "id", r.p.payload.val.exercises_id) THEN HTTPError(r, 400)
    ELSE Await(r, "interpreter", "submit_flag",
               <<_dump(r.p.payload), r.user.id>>, "return_await")

submit_flag_after_get_competition_exercises ==
    /\ At("submit_flag", "after_get_competition_exercises")
    /\ \E resp \in RepliesTo("get_competition_exercises") :
          req' = CheckMembership(Answered(req, resp), _request(resp))

create_exercise ==
    /\ At("create_exercise", "entry")
    /\ req' = AdminForward(req, "create_exercise", <<_dump(req.p.payload)>>)

get_exercise_admin ==
    /\ At("get_exercise_admin", "entry")
    /\ req' = IF NotAdmin(req.user) THEN HTTPError(req, 403)
              ELSE Await(req, "interpreter", "get_exercise", <<req.p.ex_id>>,
                         "after_get_exercise")

\* ex = await ...; if not ex: 404; return ex
ExerciseOr404(r, out) ==
    IF Raised(out) THEN Propagate(r, out)
    ELSE IF Shape(out) = "none" THEN HTTPError(r, 404)
    ELSE Reply(r, out.val)

get_exercise_admin_after_get_exercise ==
    /\ At("get_exercise_admin", "after_get_exercise")
    /\ \E resp \in RepliesTo("get_exercise") :
          req' = ExerciseOr404(Answered(req, resp), _request(resp))

link_to_competition ==
    /\ At("link_to_competition", "entry")
    /\ req' = AdminForward(req, "link_exercise_to_competition",
                           <<req.p.ex_id, req.p.comp_id>>)

link_to_tag ==
    /\ At("link_to_tag", "entry")
    /\ req' = AdminForward(req, "link_exercise_to_tag", <<req.p.ex_id, req.p.tag_id>>)

update_exercise ==
    /\ At("update_exercise", "entry")
    /\ req' = AdminForward(req, "update_exercise", <<req.p.ex_id, _dump(req.p.payload)>>)

delete_exercise ==
    /\ At("delete_exercise", "entry")
    /\ req' = AdminForward(req, "delete_exercise", <<req.p.ex_id>>)

get_exercise_competitions ==
    /\ At("get_exercise_competitions", "entry")
    /\ req' = AdminForward(req, "get_exercise_competitions", <<req.p.ex_id>>)

unlink_from_competition ==
    /\ At("unlink_from_competition", "entry")
    /\ req' = AdminForward(req, "unlink_exercise_from_competition",
                           <<req.p.ex_id, req.p.comp_id>>)

unlink_from_tag ==
    /\ At("unlink_from_tag", "entry")
    /\ req' = AdminForward(req, "unlink_exercise_from_tag", <<req.p.ex_id, req.p.tag_id>>)

deploy_exercise_infrastructure ==
    /\ At("deploy_exercise_infrastructure", "entry")
    /\ req' = IF NotAdmin(req.user) THEN HTTPError(req, 403)
              ELSE Await(req, "interpreter", "get_exercise", <<req.p.ex_id>>,
                         "after_get_exercise")

\* `not exercise or "docker_image" not in exercise`: an empty image passes.
NoDockerImage_key_only(out) == Shape(out) \in {"none", "dict"}

\* `not exercise or not exercise.get("docker_image")`
NoDockerImage(out) ==
    \/ Shape(out) \in {"none", "dict"}
    \/ Shape(out) = "data" /\ out.val.val.docker_image = ""

\* Lines 165-178: the exercise has an image; the orchestrator is asked for it.
PrepareDeploy(r, out) ==
    IF Raised(out) THEN Propagate(r, out)
    ELSE IF Shape(out) = "array" THEN Unhandled(r)
    ELSE IF NoDockerImage(out) THEN HTTPError(r, 400)
    ELSE IF ~out.val.val.has_name THEN Unhandled(r)
    ELSE Await([r EXCEPT !.loc = [exercise |-> out.val.val]],
               "orchester", "start_container",
               <<[image_link |-> out.val.val.docker_image,
                  time_alive |-> r.p.payload.val.time_alive,
                  exercise_name |-> out.val.val.name,
                  callback_url |-> "http://backend:8000/containers/callback"]>>,
               "after_start_container")

deploy_exercise_infrastructure_after_get_exercise ==
    /\ At("deploy_exercise_infrastructure", "after_get_exercise")
    /\ \E resp \in RepliesTo("get_exercise") :
          req' = PrepareDeploy(Answered(req, resp), _request(resp))

\* What orchester.start_container gives its caller: the orchestrator's answer,
\* nothing, an answer without the expected keys, or an exception.
StartContainerResults ==
    {Returned([kind |-> "data", val |-> o]) : o \in OrchesterReplies}
    \cup {Returned([kind |-> "nodetail"]), ReturnedNone}
    \cup {RaisedHTTP(s, "orchester") : s \in {400, 502, 503}}
    \cup {RaisedOther("Exception")}

\* A handler that registers a container whatever start_container gave:
\* its exception is swallowed and a record without orchestrator data is sent.
RegisterContainer_swallowing(r, out) ==
    LET container_data ==
            [set |-> {"docker_id", "image_tag", "port", "connection"},
             val |-> [docker_id |-> IF Shape(out) = "data"
                                     THEN out.val.val.container_id ELSE "",
                      image_tag |-> r.loc.exercise.docker_image,
                      port |-> IF Shape(out) = "data"
                               THEN out.val.val.host_port ELSE 0,
                      connection |-> IF Shape(out) = "data"
                                     THEN out.val.val.service_url ELSE ""]]
    IN  Await(r, "interpreter", "register_container",
              <<_dump(container_data), r.p.ex_id>>, "return_await")

\* Lines 181-188: the container the orchestrator started is registered.
RegisterContainer(r, out) ==
    IF Raised(out) THEN Propagate(r, out)
    ELSE IF Shape(out) # "data" THEN Unhandled(r)
    ELSE LET container_data ==
                 [set |-> {"docker_id", "image_tag", "port", "connection"},
                  val |-> [docker_id |-> out.val.val.container_id,
                           image_tag |-> r.loc.exercise.docker_image,
                           port |-> out.val.val.host_port,
                           connection |-> out.val.val.service_url]]
         IN  Await(r, "interpreter", "register_container",
                   <<_dump(container_data), r.p.ex_id>>, "return_await")

deploy_exercise_infrastructure_after_start_container ==
    /\ At("deploy_exercise_infrastructure", "after_start_container")
    /\ \E out \in StartContainerResults :
          req' = RegisterContainer(Got(req, out, <<>>), out)


\* ----------------------------------------------------- routers/attendance.py
\* try: attendances = await ...; len(attendances); return attendances
\* except Exception: raise HTTPException(500)
AttendanceRead(r, out) ==
    IF Raised(out) THEN HTTPError(r, 500)
    ELSE IF Shape(out) = "none" THEN HTTPError(r, 500)
    ELSE Reply(r, out.val)

get_all_attendances ==
    /\ At("get_all_attendances", "entry")
    /\ req' = IF NotAdmin(req.user) THEN HTTPError(req, 403)
              ELSE Await(req, "interpreter", "get_all_attendances", <<>>, "after_fetch")

get_all_attendances_after_fetch ==
    /\ At("get_all_attendances", "after_fetch")
    /\ \E resp \in RepliesTo("get_all_attendances") :
          req' = AttendanceRead(Answered(req, resp), _request(resp))

\* The comparison of the ids inverted.
NotAdminNorSelf_inverted(u, user_id) == NotAdmin(u) /\ u.id = user_id

\* user.role != "admin" and user.id != user_id
NotAdminNorSelf(u, user_id) == NotAdmin(u) /\ u.id # user_id

get_user_attendance ==
    /\ At("get_user_attendance", "entry")
    /\ req' = IF NotAdminNorSelf(req.user, req.p.user_id) THEN HTTPError(req, 403)
              ELSE Await(req, "interpreter", "get_user_attendance",
                         <<req.p.user_id>>, "after_fetch")

get_user_attendance_after_fetch ==
    /\ At("get_user_attendance", "after_fetch")
    /\ \E resp \in RepliesTo("get_user_attendance") :
          req' = AttendanceRead(Answered(req, resp), _request(resp))

get_competition_attendance ==
    /\ At("get_competition_attendance", "entry")
    /\ req' = IF NotAdmin(req.user) THEN HTTPError(req, 403)
              ELSE Await(req, "interpreter", "get_competition_attendance",
                         <<req.p.competition_id>>, "after_fetch")

get_competition_attendance_after_fetch ==
    /\ At("get_competition_attendance", "after_fetch")
    /\ \E resp \in RepliesTo("get_competition_attendance") :
          req' = AttendanceRead(Answered(req, resp), _request(resp))

\* The truth value of an Optional[str].
Truthy(v) == v \notin {NoneStr, ""}

\* payload.users_id if (user.role == "admin" and payload.users_id) else user.id
TargetUser(u, payload) ==
    IF u.role = "admin" /\ Truthy(payload.val.users_id) THEN payload.val.users_id
    ELSE u.id

\* Lines 73-78.
RecordAttendanceEntry(r) ==
    Await([r EXCEPT !.loc = [target_user_id |-> TargetUser(r.user, r.p.payload)]],
          "interpreter", "get_user_attendance",
          <<TargetUser(r.user, r.p.payload)>>, "after_history")

\* except HTTPException: raise; except Exception: raise HTTPException(500)
Reraise(r, out) ==
    IF out.kind = "http_exc" THEN HTTPError(r, out.status) ELSE HTTPError(r, 500)

\* The history compared with the user id instead of the competition id.
AlreadyRecorded_wrong_field(user_history, payload) ==
    AnyEq(user_history, "competitions_id", payload.val.users_id)

\* any(att["competitions_id"] == payload.competitions_id for att in user_history)
AlreadyRecorded(user_history, payload) ==
    AnyEq(user_history, "competitions_id", payload.val.competitions_id)

\* Lines 79-86: the duplicate check, then the write.
RecordAttendanceCheck(r, out) ==
    IF Raised(out) THEN Reraise(r, out)
    ELSE IF Shape(out) # "data" THEN HTTPError(r, 500)
    ELSE IF AlreadyRecorded(out.val.val, r.p.payload) THEN HTTPError(r, 400)
    ELSE Await(r, "interpreter", "record_attendance",
               <<_dump(r.p.payload), r.loc.target_user_id>>, "after_record")

\* Lines 86-94: result = await ...; return result
RecordAttendanceResult(r, out) ==
    IF Raised(out) THEN Reraise(r, out)
    ELSE IF out.kind = "none" THEN Reply(r, NoneStr)
    ELSE Reply(r, out.val)

record_attendance ==
    /\ At("record_attendance", "entry")
    /\ req' = RecordAttendanceEntry(req)

record_attendance_after_history ==
    /\ At("record_attendance", "after_history")
    /\ \E resp \in RepliesTo("get_user_attendance") :
          req' = RecordAttendanceCheck(Answered(req, resp), _request(resp))

record_attendance_after_record ==
    /\ At("record_attendance", "after_record")
    /\ \E resp \in RepliesTo("record_attendance") :
          req' = RecordAttendanceResult(Answered(req, resp), _request(resp))

\* ----------------------------------------------------- routers/scoreboard.py
get_global_scoreboard ==
    /\ At("get_global_scoreboard", "entry")
    /\ req' = Await(req, "interpreter", "get_global_scoreboard", <<>>, "return_await")

get_competition_scoreboard ==
    /\ At("get_competition_scoreboard", "entry")
    /\ req' = IF NotAdmin(req.user)
              THEN Await(req, "interpreter", "get_competition_participants",
                         <<req.p.comp_id>>, "after_participants")
              ELSE Await(req, "interpreter", "get_scoreboard",
                         <<req.p.comp_id>>, "return_await")

\* Lines 34-42: is_registered = any(p["id"] == user.id for p in participants)
CheckRegistered(r, out) ==
    IF Raised(out) THEN Propagate(r, out)
    ELSE IF Shape(out) # "data" THEN Unhandled(r)
    ELSE IF ~AnyEq(out.val.val, "id", r.user.id) THEN HTTPError(r, 403)
    ELSE Await(r, "interpreter", "get_scoreboard", <<r.p.comp_id>>, "return_await")

get_competition_scoreboard_after_participants ==
    /\ At("get_competition_scoreboard", "after_participants")
    /\ \E resp \in RepliesTo("get_competition_participants") :
          req' = CheckRegistered(Answered(req, resp), _request(resp))

\* ------------------------------------------------------- the specification
Next ==
    \/ Receive /\ Quiet
    \/ Respond /\ Quiet
    \/ return_await /\ Quiet
    \/ list_all_exercises /\ Quiet
    \/ get_connection_info /\ Quiet
    \/ get_connection_info_after_get_container /\ Quiet
    \/ get_my_solves /\ Quiet
    \/ submit_flag /\ Quiet
    \/ submit_flag_after_get_competition /\ Quiet
    \/ submit_flag_after_get_competition_exercises /\ Quiet
    \/ create_exercise /\ Quiet
    \/ get_exercise_admin /\ Quiet
    \/ get_exercise_admin_after_get_exercise /\ Quiet
    \/ link_to_competition /\ Quiet
    \/ link_to_tag /\ Quiet
    \/ update_exercise /\ Quiet
    \/ delete_exercise /\ Quiet
    \/ get_exercise_competitions /\ Quiet
    \/ unlink_from_competition /\ Quiet
    \/ unlink_from_tag /\ Quiet
    \/ deploy_exercise_infrastructure /\ Quiet
    \/ deploy_exercise_infrastructure_after_get_exercise /\ Quiet
    \/ deploy_exercise_infrastructure_after_start_container /\ Quiet
    \/ get_all_attendances /\ Quiet
    \/ get_all_attendances_after_fetch /\ Quiet
    \/ get_user_attendance /\ Quiet
    \/ get_user_attendance_after_fetch /\ Quiet
    \/ get_competition_attendance /\ Quiet
    \/ get_competition_attendance_after_fetch /\ Quiet
    \/ record_attendance /\ Quiet
    \/ record_attendance_after_history /\ Quiet
    \/ record_attendance_after_record /\ Quiet
    \/ get_global_scoreboard /\ Quiet
    \/ get_competition_scoreboard /\ Quiet
    \/ get_competition_scoreboard_after_participants /\ Quiet

Spec == Init /\ [][Next]_vars


\* ------------------------------------- record_attendance requests together
\* The handler is the one of Spec (RecordAttendanceEntry, RecordAttendanceCheck,
\* RecordAttendanceResult); here several requests are in flight, the event loop
\* resumes any of them at its await, and the interpreter answers from the
\* records it stores: GET /attendance/user/{id} with the records of the user,
\* POST /attendance/ by storing the record for the users_id of the query.
ConcUsers == {[id |-> "u1", role |-> "student"], [id |-> "u2", role |-> "admin"]}
ConcPayloads ==
    {p \in AttendancePayloads :
        \/ p.set = {"competitions_id"}
        \/ p.val.users_id = "u1"}

\* The history the interpreter answers with for user u: their records, in the
\* order stored.
RECURSIVE HistoryOf(_, _)
HistoryOf(records, u) ==
    IF records = <<>> THEN <<>>
    ELSE IF Head(records).users_id = u
         THEN <<[competitions_id |-> Head(records).competitions_id]>>
              \o HistoryOf(Tail(records), u)
         ELSE HistoryOf(Tail(records), u)

StoredOk(v) == [status |-> 200, body |-> [kind |-> "data", val |-> v]]

conc_receive(i) ==
    /\ inflight[i].pc = "idle"
    /\ \E u \in ConcUsers, p \in ConcPayloads :
          inflight' = [inflight EXCEPT ![i] =
                          NewRequest("record_attendance", u, [payload |-> p])]
    /\ UNCHANGED <<req, attendance, seen, wrote>>

conc_record_attendance(i) ==
    /\ inflight[i].pc = "entry"
    /\ inflight' = [inflight EXCEPT ![i] = RecordAttendanceEntry(inflight[i])]
    /\ UNCHANGED <<req, attendance, seen, wrote>>

\* The history lookup comes back: from the store, or not at all.
conc_after_history(i) ==
    /\ inflight[i].pc = "after_history"
    /\ \E resp \in {StoredOk(HistoryOf(attendance, inflight[i].loc.target_user_id)),
                    TransportFailure} :
          inflight' = [inflight EXCEPT ![i] =
                          RecordAttendanceCheck(Answered(inflight[i], resp),
                                                _request(resp))]
    /\ seen' = [seen EXCEPT ![i] = Len(attendance)]
    /\ UNCHANGED <<req, attendance, wrote>>

\* The write comes back: the interpreter stored the record.
conc_after_record_stored(i) ==
    /\ inflight[i].pc = "after_record"
    /\ LET call == inflight[i].calls[Len(inflight[i].calls)]
           record == [users_id |-> call.args[2],
                      competitions_id |-> call.args[1].competitions_id]
           resp == StoredOk(Opaque)
       IN  /\ attendance' = Append(attendance, record)
           /\ wrote' = [wrote EXCEPT ![i] = Len(attendance) + 1]
           /\ inflight' = [inflight EXCEPT ![i] =
                              RecordAttendanceResult(Answered(inflight[i], resp),
                                                     _request(resp))]
    /\ UNCHANGED <<req, seen>>

\* The write never reached the interpreter.
conc_after_record_failed(i) ==
    /\ inflight[i].pc = "after_record"
    /\ inflight' = [inflight EXCEPT ![i] =
                       RecordAttendanceResult(Answered(inflight[i], TransportFailure),
                                              _request(TransportFailure))]
    /\ UNCHANGED <<req, attendance, seen, wrote>>

ConcNext ==
    \E i \in Slots :
        \/ conc_receive(i)
        \/ conc_record_attendance(i)
        \/ conc_after_history(i)
        \/ conc_after_record_stored(i)
        \/ conc_after_record_failed(i)

ConcSpec == Init /\ [][ConcNext]_vars

\* ================================================================ the claims
Done == req.pc = "done"
NCalls == Len(req.calls)
\* The calls of the request made to <svc>.<op>.
CallsTo(svc, op) ==
    {i \in 1 .. NCalls : req.calls[i].svc = svc /\ req.calls[i].op = op}
\* Call i came back (without raising) with a value of the endpoint's shape.
ReturnedData(i) ==
    /\ i <= Len(req.outs)
    /\ req.outs[i].kind = "return"
    /\ req.outs[i].val.kind = "data"
\* Call i came back without raising, with a list (or object) or with None.
ReturnedListOrNone(i) ==
    /\ i <= Len(req.outs)
    /\ \/ req.outs[i].kind = "none"
       \/ req.outs[i].kind = "return" /\ req.outs[i].val.kind = "data"
\* The instant a date string denotes in UTC (a naive one is read as UTC).
Parses(d) == d.fmt \in {"Z", "naive", "offset"}
Instant(d) == CASE d.fmt = "offset" -> d.t - d.off [] OTHER -> d.t

\* ------------------------------------------------------------------- C1
\* C1: interpreter.submit_flag is called only by submit_flag, with the
\* caller's own user id and the submitted payload, and only after, in the same
\* request, get_competition returned a competition, the clock read (UTC) lay
\* within [start_date, end_date] of it, and get_competition_exercises returned a
\* list holding the submitted exercise id.
C1_SubmitOnlyWhenValidated ==
    \A i \in CallsTo("interpreter", "submit_flag") :
        /\ req.h = "submit_flag"
        /\ i = 3
        /\ req.calls[i].args = <<_dump(req.p.payload), req.user.id>>
        /\ req.calls[1].op = "get_competition"
        /\ req.calls[1].args = <<req.p.payload.val.competitions_id>>
        /\ ReturnedData(1)
        /\ req.outs[1].val.val # EmptyDict
        /\ LET comp == req.outs[1].val.val
           IN  /\ Parses(comp.start_date) /\ Parses(comp.end_date)
               /\ Instant(comp.start_date) <= req.loc.now
               /\ req.loc.now <= Instant(comp.end_date)
        /\ req.calls[2].op = "get_competition_exercises"
        /\ req.calls[2].args = <<req.p.payload.val.competitions_id>>
        /\ ReturnedData(2)
        /\ \E j \in 1 .. Len(req.outs[2].val.val) :
              req.outs[2].val.val[j].id = req.p.payload.val.exercises_id

\* A submission was forwarded for a competition whose dates carry a UTC offset.
C1_Witness ==
    /\ CallsTo("interpreter", "submit_flag") # {}
    /\ req.outs[1].val.val.start_date.fmt = "offset"
    /\ req.outs[1].val.val.end_date.fmt = "offset"
    /\ req.user.role = "student"


\* ------------------------------------------------------------------- C2
DeployOrder ==
    <<[svc |-> "interpreter", op |-> "get_exercise"],
      [svc |-> "orchester", op |-> "start_container"],
      [svc |-> "interpreter", op |-> "register_container"]>>

\* C2: deploy_exercise_infrastructure calls get_exercise, then
\* orchester.start_container, then interpreter.register_container, in that
\* order and each at most once; the orchestrator is called by no other handler
\* and only after get_exercise returned an exercise with a non-empty
\* docker_image; when the exercise is missing or has no docker_image the
\* response is 400 and get_exercise was the only call; register_container is
\* called only after start_container returned, with the container id, host
\* port and service URL of that answer, the image of the exercise and the
\* exercise id of the path.
C2_ProvisionThenRegister ==
    /\ \A i \in 1 .. NCalls :
          req.calls[i].svc = "orchester" => req.h = "deploy_exercise_infrastructure"
    /\ req.h = "deploy_exercise_infrastructure" =>
          /\ NCalls <= 3
          /\ \A i \in 1 .. NCalls :
                /\ req.calls[i].svc = DeployOrder[i].svc
                /\ req.calls[i].op = DeployOrder[i].op
          /\ NCalls >= 1 => req.calls[1].args = <<req.p.ex_id>>
          /\ NCalls >= 2 =>
                /\ ReturnedData(1)
                /\ req.outs[1].val.val.docker_image # ""
                /\ req.calls[2].args[1].image_link = req.outs[1].val.val.docker_image
          /\ (/\ Done
              /\ Len(req.outs) >= 1
              /\ \/ req.outs[1].kind = "none"
                 \/ ReturnedData(1) /\ req.outs[1].val.val.docker_image = "")
             => req.resp.status = 400 /\ NCalls = 1
          /\ NCalls = 3 =>
                /\ ReturnedData(2)
                /\ req.calls[3].args =
                      <<[docker_id |-> req.outs[2].val.val.container_id,
                         image_tag |-> req.outs[1].val.val.docker_image,
                         port |-> req.outs[2].val.val.host_port,
                         connection |-> req.outs[2].val.val.service_url],
                        req.p.ex_id>>

\* A deployment went through its three calls.
C2_Witness ==
    /\ req.h = "deploy_exercise_infrastructure"
    /\ req.user.role = "admin"
    /\ NCalls = 3
    /\ Done

\* ------------------------------------------------------------------- C3
AdminOnlyHandlers ==
    {"create_exercise", "get_exercise_admin", "link_to_competition", "link_to_tag",
     "update_exercise", "delete_exercise", "get_exercise_competitions",
     "unlink_from_competition", "unlink_from_tag", "deploy_exercise_infrastructure"}

\* C3: an admin-only exercise handler makes no downstream call for a caller
\* whose role is not "admin" and answers 403; for an admin each of them but
\* deploy has made exactly one call, to the interpreter, when it answers.
C3_AdminGate ==
    req.h \in AdminOnlyHandlers =>
        /\ req.user.role # "admin" =>
              /\ NCalls = 0
              /\ req.pc \in {"entry", "done"}
              /\ Done => req.resp.status = 403
        /\ (req.user.role = "admin" /\ req.h # "deploy_exercise_infrastructure") =>
              /\ NCalls <= 1
              /\ \A i \in 1 .. NCalls : req.calls[i].svc = "interpreter"
              /\ req.pc # "entry" => NCalls = 1

\* A student was refused an exercise deletion, with no call made.
C3_Witness ==
    /\ req.h = "delete_exercise"
    /\ req.user.role = "student"
    /\ Done
    /\ req.resp.status = 403

\* ------------------------------------------------------------------- C4
\* C4: list_all_exercises calls the interpreter and returns its exercise list
\* only for a caller whose role is "admin".
C4_LibraryForAdminsOnly ==
    (req.h = "list_all_exercises" /\ req.user.role # "admin") =>
        /\ CallsTo("interpreter", "list_all_exercises") = {}
        /\ req.resp.kind # "data"


\* ------------------------------------------------------------------- C5
\* Some entry of the list call i returned has field key equal to v (None has
\* no entry).
Among(i, key, v) ==
    /\ ReturnedData(i)
    /\ \E j \in 1 .. Len(req.outs[i].val.val) : req.outs[i].val.val[j][key] = v

\* The results of a lookup that a claim speaks of: a list, or also None.
Covered(i, withNone) == IF withNone THEN ReturnedListOrNone(i) ELSE ReturnedData(i)

C5_Statement(withNone) ==
    req.h = "record_attendance" =>
        LET target == TargetUser(req.user, req.p.payload)
            writes == CallsTo("interpreter", "record_attendance")
            dup == Among(1, "competitions_id", req.p.payload.val.competitions_id)
        IN  /\ NCalls >= 1 =>
                  /\ req.calls[1].op = "get_user_attendance"
                  /\ req.calls[1].args = <<target>>
            /\ \A i \in writes :
                  /\ i = 2
                  /\ req.calls[i].args[2] = target
                  /\ ReturnedData(1)
                  /\ ~dup
            /\ (Done /\ Covered(1, withNone) /\ dup) =>
                  req.resp.status = 400 /\ writes = {}
            /\ (Done /\ Covered(1, withNone) /\ ~dup) => writes = {2}

\* C5: record_attendance first fetches the history of the target user; once
\* that lookup has returned, interpreter.record_attendance is called (exactly
\* once, for the target user) if and only if the history has no entry with the
\* payload's competitions_id, and a history with such an entry gives 400 and no
\* write.
C5_DuplicateCheckThenWrite == C5_Statement(TRUE)

\* The same statement for the histories that are lists.
C5_OnLists == C5_Statement(FALSE)

\* ------------------------------------------------------------------- C6
\* What the claim gives for one HTTP exchange: resp met, out came out.
RequestTable(resp, out) ==
    IF resp.status = -1 THEN out.kind = "http_exc" /\ out.status = 503
    ELSE IF resp.status \in {404, 204} THEN out.kind = "none"
    ELSE IF resp.status \in 400 .. 499 THEN
        /\ out.kind = "http_exc"
        /\ out.status = resp.status
        /\ out.detail = IF resp.body.kind = "detail" THEN DownstreamDetail ELSE DefaultDetail
    ELSE IF resp.status >= 500 THEN out.kind = "http_exc" /\ out.status = 502
    ELSE out.kind = "return" /\ out.val = resp.body

\* C6: every call of _request sends exactly one HTTP request, and its result
\* is the one the status table gives: None for 404 and 204, HTTPException with
\* the same status and the downstream or default detail for another 4xx,
\* HTTPException 502 for a status >= 500, HTTPException 503 for a transport
\* failure, the decoded JSON body for every other status.
C6_RequestMapping ==
    \A i \in 1 .. Len(req.http) :
        req.calls[i].svc = "interpreter" =>
            /\ Len(req.http[i]) = 1
            /\ RequestTable(req.http[i][1], req.outs[i])

\* The table for the responses whose body is JSON (a JSON object for a 4xx).
C6_OnJsonBodies ==
    \A i \in 1 .. Len(req.http) :
        (/\ req.calls[i].svc = "interpreter"
         /\ req.http[i][1].body.kind # "notjson"
         /\ req.http[i][1].status \in 400 .. 499 => req.http[i][1].body.kind # "array")
        => /\ Len(req.http[i]) = 1
           /\ RequestTable(req.http[i][1], req.outs[i])

\* ------------------------------------------------------------------- C7
\* C7: when an interpreter call of a handler raises an HTTPException made by
\* _request, the response of the handler carries the status of that exception.
C7_StatusPassThrough ==
    Done =>
        \A i \in 1 .. Len(req.outs) :
            (req.calls[i].svc = "interpreter" /\ req.outs[i].kind = "http_exc")
            => req.resp.status = req.outs[i].status

\* The handlers that do pass the status through: all but the attendance readers.
C7_ExceptAttendanceReaders ==
    (Done /\ req.h \notin {"get_all_attendances", "get_user_attendance",
                           "get_competition_attendance"}) =>
        \A i \in 1 .. Len(req.outs) :
            (req.calls[i].svc = "interpreter" /\ req.outs[i].kind = "http_exc")
            => req.resp.status = req.outs[i].status

\* ------------------------------------------------------------------- C8
C8_Statement(withNone) ==
    req.h = "get_competition_scoreboard" =>
        LET lookups == CallsTo("interpreter", "get_competition_participants")
            boards == CallsTo("interpreter", "get_scoreboard")
        IN  /\ req.user.role = "admin" =>
                  /\ lookups = {}
                  /\ NCalls >= 1 => boards = {1} /\ req.calls[1].args = <<req.p.comp_id>>
            /\ req.user.role # "admin" =>
                  /\ NCalls >= 1 =>
                        lookups = {1} /\ req.calls[1].args = <<req.p.comp_id>>
                  /\ boards # {} =>
                        /\ boards = {2}
                        /\ req.calls[2].args = <<req.p.comp_id>>
                        /\ Among(1, "id", req.user.id)
                  /\ (Done /\ req.resp.kind = "data") => boards = {2}
                  /\ (Done /\ Covered(1, withNone) /\ ~Among(1, "id", req.user.id)) =>
                        req.resp.status = 403 /\ boards = {}

\* C8: get_competition_scoreboard calls get_scoreboard for an admin without
\* looking the participants up; a caller who is no admin gets the scoreboard
\* only if get_competition_participants returned their id, and gets 403, with
\* get_scoreboard not called, whenever the lookup returned without their id.
C8_ScoreboardAccess == C8_Statement(TRUE)

\* The same statement for the participant lookups that return a list.
C8_OnLists == C8_Statement(FALSE)


\* ------------------------------------------------------------------- C9
\* C9: get_all_attendances and get_competition_attendance call the interpreter
\* only for an admin, get_user_attendance only for an admin or for the user
\* whose history is asked; any other caller gets 403 and no call is made; a
\* caller who is let through makes the one call of the handler.
C9_AttendanceReadAccess ==
    req.h \in {"get_all_attendances", "get_user_attendance",
               "get_competition_attendance"} =>
        LET allowed ==
                \/ req.user.role = "admin"
                \/ req.h = "get_user_attendance" /\ req.p.user_id = req.user.id
        IN  /\ ~allowed =>
                  /\ NCalls = 0
                  /\ req.pc \in {"entry", "done"}
                  /\ Done => req.resp.status = 403
            /\ allowed =>
                  /\ NCalls <= 1
                  /\ req.pc # "entry" =>
                        /\ NCalls = 1
                        /\ req.calls[1].svc = "interpreter"
                        /\ req.calls[1].op = req.h
                  /\ (req.pc # "entry" /\ req.h = "get_user_attendance") =>
                        req.calls[1].args = <<req.p.user_id>>

\* A student was refused the history of another user, with no call made.
C9_Witness ==
    /\ req.h = "get_user_attendance"
    /\ req.user.role = "student"
    /\ req.p.user_id # req.user.id
    /\ Done
    /\ req.resp.status = 403
    /\ NCalls = 0

\* A student read their own history.
C9_WitnessOwn ==
    /\ req.h = "get_user_attendance"
    /\ req.user.role = "student"
    /\ req.p.user_id = req.user.id
    /\ Done
    /\ req.resp.kind = "data"

\* ------------------------------------------------------------------ C10
C10_Statement(withNone) ==
    req.h = "submit_flag" =>
        LET lookups == CallsTo("interpreter", "get_competition_exercises")
            found == ReturnedData(1) /\ req.outs[1].val.val # EmptyDict
            comp == req.outs[1].val.val
            dated == found /\ Parses(comp.start_date) /\ Parses(comp.end_date)
            now == req.loc.now
        IN  /\ (Done /\ Len(req.outs) >= 1 /\ req.outs[1].kind = "none") =>
                  req.resp.status = 404 /\ NCalls = 1
            /\ (Done /\ dated /\ now < Instant(comp.start_date)) =>
                  req.resp.status = 400 /\ lookups = {}
            /\ (Done /\ dated /\ now > Instant(comp.end_date)) =>
                  req.resp.status = 400 /\ lookups = {}
            /\ (dated /\ Instant(comp.start_date) <= now /\ now <= Instant(comp.end_date)) =>
                  lookups = {2}
            /\ (Done /\ found /\ ~dated) =>
                  req.resp.status = 500 /\ lookups = {}
            /\ lookups # {} =>
                  /\ lookups = {2}
                  /\ dated
                  /\ Instant(comp.start_date) <= now
                  /\ now <= Instant(comp.end_date)
            /\ (Done /\ Covered(2, withNone)
                     /\ ~Among(2, "id", req.p.payload.val.exercises_id)) =>
                  /\ req.resp.status = 400
                  /\ CallsTo("interpreter", "submit_flag") = {}

\* C10: submit_flag answers 404 to a missing competition and makes no other
\* call; 500 to dates it cannot parse; 400 to a clock before start_date or
\* after end_date (a clock equal to either is let through), in all three
\* without get_competition_exercises; membership is looked up only after
\* these, and an exercise that is not among the returned ones gives 400 and no
\* submission.
C10_ValidationOrder == C10_Statement(TRUE)

\* The same statement for the membership lookups that return a list.
C10_OnLists == C10_Statement(FALSE)

\* The order as the claim lists it, the window before the parse failure: a
\* clock before a start_date that parses gives 400 whatever end_date is.
C10_WindowBeforeParse ==
    (/\ req.h = "submit_flag"
     /\ Done
     /\ ReturnedData(1)
     /\ req.outs[1].val.val # EmptyDict
     /\ Parses(req.outs[1].val.val.start_date)
     /\ req.loc.now < Instant(req.outs[1].val.val.start_date))
    => req.resp.status = 400


\* ------------------------------------------------------------------ C11
\* The (user, competition) pair request i acts on.
PairOf(i) ==
    [users_id |-> inflight[i].loc.target_user_id,
     competitions_id |-> inflight[i].p.payload.val.competitions_id]
\* The calls of interpreter.record_attendance made so far for pair.
WritesFor(pair) ==
    {i \in Slots :
        \E k \in 1 .. Len(inflight[i].calls) :
            /\ inflight[i].calls[k].op = "record_attendance"
            /\ inflight[i].calls[k].args[2] = pair.users_id
            /\ inflight[i].calls[k].args[1].competitions_id = pair.competitions_id}
StoredFor(pair) == {k \in 1 .. Len(attendance) : attendance[k] = pair}

\* C11 as claimed: whatever the interleaving of the requests,
\* interpreter.record_attendance is called at most once for a (user,
\* competition) pair, and the interpreter never stores two records for it.
C11_AtMostOneWrite ==
    \A u \in UserIds, c \in CompIds :
        LET pair == [users_id |-> u, competitions_id |-> c]
        IN  Cardinality(WritesFor(pair)) <= 1 /\ Cardinality(StoredFor(pair)) <= 1

\* C11 as amended: a request calls interpreter.record_attendance only if no
\* record of its pair was stored when its own history lookup was answered; so
\* two requests both write the same pair only when the lookup of each was
\* answered before the write of the other, and a request whose lookup follows
\* a stored write of the pair gets 400 and does not write.
C11_WriteOnlyIfUnseenAtLookup ==
    \A i \in Slots :
        /\ (inflight[i].pc \in {"after_record", "done"} /\ i \in WritesFor(PairOf(i))) =>
              \A k \in 1 .. seen[i] : attendance[k] # PairOf(i)
        /\ (inflight[i].pc = "done" /\ Len(inflight[i].outs) >= 1
                /\ inflight[i].outs[1].kind = "return"
                /\ \E k \in 1 .. seen[i] : attendance[k] = PairOf(i)) =>
              /\ inflight[i].resp.status = 400
              /\ i \notin WritesFor(PairOf(i))
        /\ \A j \in Slots \ {i} :
              (wrote[i] # 0 /\ wrote[j] # 0 /\ attendance[wrote[i]] = attendance[wrote[j]])
              => seen[i] < wrote[j] /\ seen[j] < wrote[i]

\* Two requests for the same pair, one after the other: the first wrote, the
\* second looked the history up after that write and was refused.
C11_Witness ==
    \E i, j \in Slots :
        /\ i # j
        /\ wrote[i] # 0
        /\ inflight[j].pc = "done"
        /\ inflight[j].resp.status = 400
        /\ PairOf(j) = attendance[wrote[i]]
        /\ seen[j] >= wrote[i]

\* Two requests for the same pair both wrote: the race.
C11_WitnessRace ==
    \E i, j \in Slots :
        /\ i # j
        /\ wrote[i] # 0 /\ wrote[j] # 0
        /\ attendance[wrote[i]] = attendance[wrote[j]]

\* ---- C12 ----------------------------------------------------------------
\* The user ids a record_attendance request hands to the interpreter: the
\* path parameter of the history lookup, the users_id query parameter of
\* the write, and the users_id key of the forwarded JSON body when present.
LookupIds ==
    {req.calls[i].args[1] : i \in CallsTo("interpreter", "get_user_attendance")}
QueryIds ==
    {req.calls[i].args[2] : i \in CallsTo("interpreter", "record_attendance")}
BodyIds ==
    {req.calls[i].args[1].users_id :
        i \in {j \in CallsTo("interpreter", "record_attendance") :
                  "users_id" \in DOMAIN req.calls[j].args[1]}}
    \cap UserIds

\* C12: for a caller whose role is not "admin", record_attendance acts only
\* on the caller's own id whatever payload.users_id holds: the history
\* lookup, the users_id query parameter and the JSON body forwarded to the
\* interpreter carry no user id other than the caller's; only an admin with
\* a non-empty payload.users_id records attendance for another user.
C12_OwnIdOnly ==
    req.h = "record_attendance" =>
        /\ req.user.role # "admin" =>
              LookupIds \cup QueryIds \cup BodyIds \subseteq {req.user.id}
        /\ \A u \in LookupIds \cup QueryIds :
              u # req.user.id =>
                  /\ req.user.role = "admin"
                  /\ Truthy(req.p.payload.val.users_id)
                  /\ u = req.p.payload.val.users_id

\* C12, the part the code keeps: the lookup and the query parameter of a
\* non-admin caller carry the caller's id, and only an admin with a
\* non-empty payload.users_id has another user looked up or written for.
C12_LookupAndQueryOwnId ==
    req.h = "record_attendance" =>
        /\ req.user.role # "admin" => LookupIds \cup QueryIds \subseteq {req.user.id}
        /\ \A u \in LookupIds \cup QueryIds :
              u # req.user.id =>
                  /\ req.user.role = "admin"
                  /\ Truthy(req.p.payload.val.users_id)
                  /\ u = req.p.payload.val.users_id

\* A student's write has gone out with the caller's id as query parameter
\* while the payload named another user.
C12_WitnessForeignPayload ==
    /\ req.h = "record_attendance"
    /\ req.user.role # "admin"
    /\ req.p.payload.val.users_id \in UserIds \ {req.user.id}
    /\ QueryIds = {req.user.id}

\* ---- C13 ----------------------------------------------------------------
\* The calls of the request made to the orchestrator.
OrchesterCalls == {i \in 1 .. NCalls : req.calls[i].svc = "orchester"}
\* Call i came back as a failure of the interpreter (error status, transport
\* failure, undecodable body) or as None (404, 204).
FailedOrNone(i) ==
    /\ i <= Len(req.outs)
    /\ Raised(req.outs[i]) \/ req.outs[i].kind = "none"

\* C13: deploy_exercise_infrastructure has no compensation step. Once
\* start_container has succeeded, a register_container that fails or returns
\* None ends the request at once with start_container as the handler's only
\* call to the orchestrator: the container is provisioned and not
\* registered, and the caller gets the interpreter's error status, 500, or
\* an empty 200. When start_container does not give a container, the
\* request ends with 4xx/5xx and register_container is never called.
C13_NoCompensation ==
    req.h = "deploy_exercise_infrastructure" =>
        /\ OrchesterCalls \subseteq {2}
        /\ \A i \in OrchesterCalls : req.calls[i].op = "start_container"
        /\ FailedOrNone(3) =>
              /\ Done
              /\ NCalls = 3
              /\ ReturnedData(2)
              /\ OrchesterCalls = {2}
              /\ CallsTo("interpreter", "register_container") = {3}
              /\ req.outs[3].kind = "http_exc" => req.resp.status = req.outs[3].status
              /\ req.outs[3].kind = "exc" => req.resp.status = 500
              /\ req.outs[3].kind = "none" => req.resp.status = 200
        /\ (Len(req.outs) >= 2 /\ ~ReturnedData(2)) =>
              /\ Done
              /\ NCalls = 2
              /\ CallsTo("interpreter", "register_container") = {}
              /\ req.resp.status >= 400

\* A container was started and its registration failed or came back None.
C13_Witness ==
    /\ req.h = "deploy_exercise_infrastructure"
    /\ ReturnedData(2)
    /\ FailedOrNone(3)
    /\ Done

\* start_container raised and the request ended without a registration.
C13_WitnessStartFailed ==
    /\ req.h = "deploy_exercise_infrastructure"
    /\ Len(req.outs) = 2
    /\ Raised(req.outs[2])
    /\ Done

=============================================================================
